---------------------------- MODULE Spec2Model ----------------------------
(***************************************************************************)
(* Model of src/cli/typescript-starter.ts: the typescriptStarter pipeline  *)
(* that turns a cloned template into a new project.  The project directory *)
(* is a map from paths to contents; text files are sequences of text       *)
(* fragments (lines, JSON fragments, placeholders) on which replaceInFile   *)
(* acts by exact match, first occurrence only.                             *)
(***************************************************************************)
EXTENDS Integers, Sequences, FiniteSets, TLC

VARIABLES
  cfg,        \* TypescriptStarterOptions of the run (never changes)
  prov,       \* the tree tasks.cloneRepo materializes (never changes)
  fs,         \* the project directory: path -> text content / opaque entry
  pkgFile,    \* package.json on disk: [parseable, json]
  pkg,        \* the parsed manifest held in memory after readPackageJson
  pc,         \* the statement the pipeline is at
  status,     \* "running" | "done" | "aborted" (promise pending/resolved/rejected)
  error,      \* the error the returned promise rejects with
  ops,        \* history: the operations issued so far, in order
  rejected,   \* history: the collaborator calls that failed
  vscodeTask  \* the detached del of .vscode: "none"|"pending"|"ok"|"failed"

vars == <<cfg, prov, fs, pkgFile, pkg, pc, status, error, ops, rejected, vscodeTask>>

----------------------------------------------------------------------------
(* Configuration values *)

PlaceholderName == "YOUR_NAME"
PlaceholderEmail == "YOUR_EMAIL"
Placeholders == [name |-> PlaceholderName, email |-> PlaceholderEmail]

Runner == [Npm |-> "npm", Yarn |-> "yarn"]

projectName == "demo"
description == "A demo"
githubUsername == "octocat"

Configs ==
  [ domDefinitions : BOOLEAN,
    nodeDefinitions : BOOLEAN,
    install : BOOLEAN,
    vscode : BOOLEAN,
    fullName : {PlaceholderName, "Ada Lovelace"},
    email : {PlaceholderEmail, "ada@example.com"},
    runner : {Runner.Npm, Runner.Yarn},
    projectName : {projectName},
    description : {description} ]

\* the project names and descriptions runs are given
ProjectNames == {projectName, "my-lib"}
Descriptions == {description, "Earn $$", "See $& here", "[package-name] docs"}

\* `standard-version -t ${projectName}\\@`
VersionScript(name) ==
  CASE name = "demo" -> "standard-version -t demo\\@"
    [] name = "my-lib" -> "standard-version -t my-lib\\@"

\* `https://github.com/${githubUsername}/${projectName}`
RepositoryUrl(user, name) ==
  CASE user = "octocat" /\ name = "demo" -> "https://github.com/octocat/demo"
    [] user = "octocat" /\ name = "my-lib" -> "https://github.com/octocat/my-lib"

\* a description as the text fragments String.prototype.replace sees in a
\* replacement string: plain text and the patterns $$, $&, $`, $'
DescriptionText(d) ==
  CASE d = "A demo" -> <<"A demo">>
    [] d = "Earn $$" -> <<"Earn ", "$$">>
    [] d = "See $& here" -> <<"See ", "$&", " here">>
    [] d = "[package-name] docs" -> <<"[package-name]", " docs">>

----------------------------------------------------------------------------
(* JSON values: every value carries its kind, so that `undefined' can be    *)
(* told from a string, an array or an object.                              *)

EmptyObj == [k \in {} |-> 0]
JStr(s) == [kind |-> "string", str |-> s, arr |-> <<>>, obj |-> EmptyObj]
JArr(a) == [kind |-> "array", str |-> "", arr |-> a, obj |-> EmptyObj]
JObj(o) == [kind |-> "object", str |-> "", arr |-> <<>>, obj |-> o]
Undefined == [kind |-> "undefined", str |-> "", arr |-> <<>>, obj |-> EmptyObj]

\* o[k] of JavaScript: undefined when the key is absent
Get(o, k) == IF k \in DOMAIN o THEN o[k] ELSE Undefined

\* { ...a, ...b }: keys of b override keys of a
Spread(a, b) ==
  [k \in (DOMAIN a) \cup (DOMAIN b) |-> IF k \in DOMAIN b THEN b[k] ELSE a[k]]

\* { ...v } of a JSON value: the own keys of an object, nothing otherwise
SpreadOf(v) == IF v.kind = "object" THEN v.obj ELSE EmptyObj

\* faulty variant of Delete: the key stays
DeleteNothing(o, k) == o

\* delete o[k]
Delete(o, k) == [j \in (DOMAIN o) \ {k} |-> o[j]]

\* JSON.stringify then JSON.parse: keys whose value is undefined are dropped,
\* at the top level and in nested objects (nesting depth of a manifest: 2)
DropUndefined(o) == [k \in {j \in DOMAIN o : o[j].kind # "undefined"} |-> o[k]]

JSONStringify(o) ==
  LET top == DropUndefined(o)
  IN [k \in DOMAIN top |->
        IF top[k].kind = "object" THEN JObj(DropUndefined(top[k].obj))
        ELSE top[k]]

----------------------------------------------------------------------------
(* Manifest Transform, lines 54-126 *)

keptDevDeps ==
  << "@ava/typescript", "@istanbuljs/nyc-config-typescript",
     "@typescript-eslint/eslint-plugin", "@typescript-eslint/parser",
     "ava", "eslint", "eslint-config-prettier",
     "eslint-plugin-eslint-comments", "eslint-plugin-import", "gh-pages",
     "npm-run-all", "nyc", "open-cli", "prettier", "standard-version",
     "trash-cli", "ts-node", "typedoc", "typescript" >>

nodeKeptDeps == <<>>

Range(s) == {s[i] : i \in 1..Len(s)}

\* keep.reduce((acc, m) => ({ ...acc, [m]: from[m] }), {}): every name of
\* `keep' becomes a key, its value from[m] (undefined when absent from `from')
filterAllBut(keep, from) == [m \in Range(keep) |-> Get(from, m)]

\* faulty variant of scripts: the inherited scripts are spread last
scriptsInheritedLast(p, c) ==
  Spread(
    Spread([k \in {"version"} |-> JStr(VersionScript(c.projectName))],
           IF c.runner = Runner.Yarn
             THEN [k \in {"reset-hard"} |->
                     JStr("git clean -dfx && git reset --hard && yarn")]
             ELSE EmptyObj),
    SpreadOf(Get(p, "scripts")))

scripts(p, c) ==
  Spread(
    Spread(SpreadOf(Get(p, "scripts")),
           [k \in {"version"} |-> JStr(VersionScript(c.projectName))]),
    IF c.runner = Runner.Yarn
      THEN [k \in {"reset-hard"} |->
              JStr("git clean -dfx && git reset --hard && yarn")]
      ELSE EmptyObj)

\* faulty variant of dependencies: the source's dependencies are kept
dependenciesInherited(p, c) == SpreadOf(Get(p, "dependencies"))

\* lines 102-104
dependencies(p, c) ==
  IF c.nodeDefinitions
    THEN filterAllBut(nodeKeptDeps, Get(p, "dependencies").obj)
    ELSE EmptyObj

\* line 87 under line 106: from[moduleName] throws a TypeError when the
\* manifest has no devDependencies (keptDevDeps is not empty)
newPkgThrows(p) == Get(p, "devDependencies").kind = "undefined"

newPkg(p, c) ==
  LET over ==
        [ dependencies |-> JObj(dependencies(p, c)),
          description |-> JStr(c.description),
          devDependencies |->
            JObj(filterAllBut(keptDevDeps, Get(p, "devDependencies").obj)),
          keywords |-> JArr(<<>>),
          name |-> JStr(c.projectName),
          repository |-> JStr(RepositoryUrl(githubUsername, c.projectName)),
          scripts |-> JObj(scripts(p, c)),
          version |-> JStr("1.0.0"),
          ava |-> JObj(Spread(SpreadOf(Get(p, "ava")),
                   [ files |-> JArr(<<"!build/module/**">>),
                     ignoredByWatcher |-> Undefined ])) ]
      merged == Spread(p, over)
  IN Delete(Delete(Delete(merged, "bin"), "NOTE"), "NOTE_2")

\* The manifest of the template
TemplatePkg ==
  [ name |-> JStr("typescript-starter"),
    version |-> JStr("3.1.0"),
    description |-> JStr("A typescript starter"),
    keywords |-> JArr(<<"async", "ava", "typescript">>),
    bin |-> JObj([k \in {"typescript-starter"} |-> JStr("build/main/cli/cli.js")]),
    NOTE |-> JStr("These dependencies are only used by the CLI"),
    NOTE_2 |-> JStr("Projects generated by the CLI do not need them"),
    scripts |-> JObj([ build |-> JStr("run-p build:*"),
                       version |-> JStr("standard-version") ]),
    dependencies |-> JObj([ chalk |-> JStr("^4.1.0"), del |-> JStr("^6.0.0") ]),
    devDependencies |-> JObj([ ava |-> JStr("^3.12.1"),
                               typescript |-> JStr("^4.0.2"),
                               meow |-> JStr("^7.1.1") ]),
    ava |-> JObj([ failFast |-> JStr("true"),
                   ignoredByWatcher |-> JArr(<<"diff", "test">>) ]) ]


----------------------------------------------------------------------------
(* The project directory *)

GitHistoryDir == ".git"
Gitignore == ".gitignore"
Tsconfig == "tsconfig.json"
IndexTs == "src/index.ts"
ReadmeStarter == "README-starter.md"
Readme == "README.md"
Vscode == ".vscode"
HashTs == "src/lib/hash.ts"
HashSpecTs == "src/lib/hash.spec.ts"
AsyncTs == "src/lib/async.ts"
AsyncSpecTs == "src/lib/async.spec.ts"

\* the literals the pipeline searches for and writes
DiffLine == "diff\n"
YarnLock == "yarn.lock"
PackageLock == "package-lock.json"
PackageNameToken == "[package-name]"
DescriptionToken == "[description]"
LibDom == "\"lib\": [\"es2017\", \"dom\"]"
LibReduced == "\"lib\": [\"es2017\"]"
TypesNode == "\"types\": [\"node\"]"
TypesEmpty == "\"types\": []"
HashExport == "export * from './lib/hash';\n"
AsyncExport == "export * from './lib/async';\n"
NumberExport == "export * from './lib/number';\n"

EmptyDir == [p \in {} |-> <<>>]

\* faulty variant of del: fails on the first missing path and removes nothing
delStrict(f, paths) ==
  IF paths \subseteq DOMAIN f THEN [p \in (DOMAIN f) \ paths |-> f[p]] ELSE f

\* del(paths): removes the paths that exist; a path that is absent is no error
del(f, paths) == [p \in (DOMAIN f) \ paths |-> f[p]]

\* the replacement string `to' with its patterns expanded
RECURSIVE Expand(_, _, _, _)
Expand(to, match, before, after) ==
  IF to = <<>> THEN <<>>
  ELSE (CASE Head(to) = "$$" -> <<"$">>
          [] Head(to) = "$&" -> <<match>>
          [] Head(to) = "$`" -> before
          [] Head(to) = "$'" -> after
          [] OTHER -> <<Head(to)>>)
       \o Expand(Tail(to), match, before, after)

\* String.prototype.replace with a string pattern: the first occurrence of
\* `from' is replaced by `to'; a text without `from' is returned unchanged
\* In the replacement string $$ inserts "$", $& the matched text, $` the text
\* before the match and $' the text after it.
ReplaceFirst(s, from, to) ==
  IF \E i \in 1..Len(s) : s[i] = from
    THEN LET i == CHOOSE j \in 1..Len(s) :
                    s[j] = from /\ \A k \in 1..(j - 1) : s[k] # from
         IN SubSeq(s, 1, i - 1)
            \o Expand(to, from, SubSeq(s, 1, i - 1), SubSeq(s, i + 1, Len(s)))
            \o SubSeq(s, i + 1, Len(s))
    ELSE s

\* faulty variant of replaceInFile: rejects when the text does not contain `from'
replaceInFileStrict(f, file, from, to) ==
  IF file \in DOMAIN f /\ \E i \in 1..Len(f[file]) : f[file][i] = from
    THEN [ok |-> TRUE, fs |-> [f EXCEPT ![file] = ReplaceFirst(f[file], from, to)]]
    ELSE [ok |-> FALSE, fs |-> f]

\* replaceInFile({files, from, to}): rewrites the file; rejects when no file
\* matches `files'
replaceInFile(f, file, from, to) ==
  IF file \in DOMAIN f
    THEN [ok |-> TRUE, fs |-> [f EXCEPT ![file] = ReplaceFirst(f[file], from, to)]]
    ELSE [ok |-> FALSE, fs |-> f]

\* renameSync(a, b): throws ENOENT when a does not exist; replaces b
renameSync(f, a, b) ==
  IF a \in DOMAIN f
    THEN [ok |-> TRUE,
          fs |-> [p \in ((DOMAIN f) \ {a}) \cup {b} |-> IF p = b THEN f[a] ELSE f[p]]]
    ELSE [ok |-> FALSE, fs |-> f]

----------------------------------------------------------------------------
(* The template tasks.cloneRepo materializes.  The fixed layout, and the    *)
(* layouts that have drifted from it in at most MaxDrift places.           *)

MaxDrift == 2

Drifts ==
  { "noHashExport", "noAsyncExport", "noHashFiles", "noAsyncFiles",
    "noLibDom", "noTypesNode", "noReadmeStarter", "badManifest" }

TemplateFiles(d) ==
  LET always == { GitHistoryDir, Gitignore, Tsconfig, IndexTs, Readme, Vscode,
                  "CHANGELOG.md", "package-lock.json", "bin", "src/cli" }
      paths == always
        \cup (IF "noHashFiles" \in d THEN {} ELSE {HashTs, HashSpecTs})
        \cup (IF "noAsyncFiles" \in d THEN {} ELSE {AsyncTs, AsyncSpecTs})
        \cup (IF "noReadmeStarter" \in d THEN {} ELSE {ReadmeStarter})
  IN [p \in paths |->
        CASE p = Gitignore -> <<"build\n", DiffLine, YarnLock>>
          [] p = Tsconfig ->
               << IF "noLibDom" \in d THEN LibReduced ELSE LibDom,
                  IF "noTypesNode" \in d THEN TypesEmpty ELSE TypesNode >>
          [] p = IndexTs ->
               (IF "noAsyncExport" \in d THEN <<>> ELSE <<AsyncExport>>)
               \o (IF "noHashExport" \in d THEN <<>> ELSE <<HashExport>>)
               \o <<NumberExport>>
          [] p = ReadmeStarter -> <<"# ", PackageNameToken, "\n", DescriptionToken>>
          [] p = Readme -> <<"# typescript-starter">>
          [] OTHER -> <<>>]

Template(d) ==
  [ drift |-> d,
    files |-> TemplateFiles(d),
    pkgFile |-> [parseable |-> "badManifest" \notin d, json |-> TemplatePkg] ]

Templates == {Template(d) : d \in {x \in SUBSET Drifts : Cardinality(x) <= MaxDrift}}

----------------------------------------------------------------------------
(* The file operations of the pipeline, each as a function of the tree.    *)
(* A result is [ok, fs]: whether the awaited promise resolved, and the     *)
(* tree it leaves.                                                         *)

Resolved(f) == [ok |-> TRUE, fs |-> f]

\* r, then (if r resolved) the operation step: sequential awaits
Then(r, step(_)) == IF r.ok THEN step(r.fs) ELSE r

\* lines 130-134
gitignoreDiff(f) == replaceInFile(f, Gitignore, DiffLine, <<>>)
\* lines 136-140
gitignoreYarn(f) == replaceInFile(f, Gitignore, YarnLock, <<PackageLock>>)
\* lines 146-152
delScaffold(f) ==
  Resolved(del(f, {"CHANGELOG.md", Readme, "package-lock.json", "bin", "src/cli"}))
\* lines 164-167
renameReadme(f) == renameSync(f, ReadmeStarter, Readme)
\* lines 168-172
readmePackageName(f, c) ==
  replaceInFile(f, Readme, PackageNameToken, <<c.projectName>>)
\* lines 173-177
readmeDescription(f, c) ==
  replaceInFile(f, Readme, DescriptionToken, DescriptionText(c.description))

\* lines 182-186
domTsconfig(f) == replaceInFile(f, Tsconfig, LibDom, <<LibReduced>>)
\* lines 187-191
domExport(f) == replaceInFile(f, IndexTs, HashExport, <<>>)
\* faulty variant of domDel: leaves the companion test module
domDelModuleOnly(f) == Resolved(del(f, {HashTs}))

\* lines 192-195
domDel(f) == Resolved(del(f, {HashTs, HashSpecTs}))

\* lines 201-205
nodeTsconfig(f) == replaceInFile(f, Tsconfig, TypesNode, <<TypesEmpty>>)
\* lines 206-210
nodeAsyncExport(f) == replaceInFile(f, IndexTs, AsyncExport, <<>>)
\* faulty variant of nodeHashExport: the shared export line is not removed
nodeHashExportMissing(f) == Resolved(f)

\* lines 211-215
nodeHashExport(f) == replaceInFile(f, IndexTs, HashExport, <<>>)
\* lines 216-221
nodeDel(f) == Resolved(del(f, {HashTs, HashSpecTs, AsyncTs, AsyncSpecTs}))

\* lines 180-197, the body of `if (!domDefinitions)': DOM pruning
pruneDomFeature(f) == Then(Then(domTsconfig(f), domExport), domDel)

\* lines 199-223, the body of `if (!nodeDefinitions)': platform pruning
prunePlatformFeature(f) ==
  Then(Then(Then(nodeTsconfig(f), nodeAsyncExport), nodeHashExport), nodeDel)

----------------------------------------------------------------------------
(* typescriptStarter, lines 22-240: the statements in program order *)

\* faulty variant of Stmts: feature pruning placed before the scaffold deletion
StmtsPruneFirst ==
  << "cloneRepo", "delGitHistory", "readPackageJson", "writePackageJson",
     "gitignoreDiff", "gitignoreYarn",
     "domTsconfig", "domExport", "domDel",
     "nodeTsconfig", "nodeAsyncExport", "nodeHashExport", "nodeDel",
     "delScaffold", "delVscode",
     "renameReadme", "readmePackageName", "readmeDescription",
     "install", "initialCommit", "created" >>

\* faulty variant of Stmts: the history directory is deleted after the
\* manifest has been read
StmtsHistoryLate ==
  << "cloneRepo", "readPackageJson", "delGitHistory", "writePackageJson",
     "gitignoreDiff", "gitignoreYarn", "delScaffold", "delVscode",
     "renameReadme", "readmePackageName", "readmeDescription",
     "domTsconfig", "domExport", "domDel",
     "nodeTsconfig", "nodeAsyncExport", "nodeHashExport", "nodeDel",
     "install", "initialCommit", "created" >>

\* faulty variant of Stmts: DOM pruning deletes the module files before it
\* removes the export line
StmtsDelFirst ==
  << "cloneRepo", "delGitHistory", "readPackageJson", "writePackageJson",
     "gitignoreDiff", "gitignoreYarn", "delScaffold", "delVscode",
     "renameReadme", "readmePackageName", "readmeDescription",
     "domTsconfig", "domDel", "domExport",
     "nodeTsconfig", "nodeAsyncExport", "nodeHashExport", "nodeDel",
     "install", "initialCommit", "created" >>

Stmts ==
  << "cloneRepo", "delGitHistory", "readPackageJson", "writePackageJson",
     "gitignoreDiff", "gitignoreYarn", "delScaffold", "delVscode",
     "renameReadme", "readmePackageName", "readmeDescription",
     "domTsconfig", "domExport", "domDel",
     "nodeTsconfig", "nodeAsyncExport", "nodeHashExport", "nodeDel",
     "install", "initialCommit", "created" >>

Pos(p) == CHOOSE i \in 1..Len(Stmts) : Stmts[i] = p

\* the statement that follows p
Succ(p) == Stmts[Pos(p) + 1]

\* faulty variant of gitIsConfigured: one customized field is enough
gitIsConfiguredEither(c) ==
  c.fullName # Placeholders.name \/ c.email # Placeholders.email

gitIsConfigured(c) ==
  c.fullName # Placeholders.name /\ c.email # Placeholders.email

Init ==
  /\ cfg \in Configs
  /\ prov \in Templates
  /\ fs = EmptyDir
  /\ pkgFile = [parseable |-> FALSE, json |-> EmptyObj]
  /\ pkg = EmptyObj
  /\ pc = Stmts[1]
  /\ status = "running"
  /\ error = "none"
  /\ ops = <<>>
  /\ rejected = {}
  /\ vscodeTask = "none"

At(p) == status = "running" /\ pc = p

\* a throw, or the rejection of an awaited promise: the returned promise
\* rejects with the error and nothing after the statement runs
Abort(e) == status' = "aborted" /\ error' = e /\ pc' = pc

Goto(p) == pc' = p /\ UNCHANGED <<status, error>>

Issue(op) == ops' = Append(ops, op)

\* an awaited file operation at statement `at' with result r = [ok, fs]:
\* the next statement runs once it has resolved, none if it rejects
FileStep(at, r) ==
  /\ At(at)
  /\ Issue(at)
  /\ fs' = r.fs
  /\ IF r.ok THEN Goto(Succ(at)) ELSE Abort(at)
  /\ UNCHANGED <<cfg, prov, pkgFile, pkg, rejected, vscodeTask>>

\* a statement whose `if' is false
Skip(to) ==
  /\ Goto(to)
  /\ UNCHANGED <<cfg, prov, fs, pkgFile, pkg, ops, rejected, vscodeTask>>

\* lines 40-44: await tasks.cloneRepo(...)
CloneRepo ==
  /\ At("cloneRepo")
  /\ Issue("cloneRepo")
  /\ \/ /\ fs' = prov.files
        /\ pkgFile' = prov.pkgFile
        /\ Goto(Succ("cloneRepo"))
        /\ UNCHANGED rejected
     \/ /\ rejected' = rejected \cup {"cloneRepo"}
        /\ Abort("cloneRepo")
        /\ UNCHANGED <<fs, pkgFile>>
  /\ UNCHANGED <<cfg, prov, pkg, vscodeTask>>

\* line 45
DelGitHistory == FileStep("delGitHistory", Resolved(del(fs, {GitHistoryDir})))

\* faulty variant of ReadPackageJson: a manifest that cannot be parsed reads as {}
ReadPackageJsonLenient ==
  /\ At("readPackageJson")
  /\ Issue("readPackageJson")
  /\ pkg' = IF pkgFile.parseable THEN pkgFile.json ELSE EmptyObj
  /\ Goto(Succ("readPackageJson"))
  /\ UNCHANGED <<cfg, prov, fs, pkgFile, rejected, vscodeTask>>

\* lines 12-13, 92: JSON.parse(readFileSync(pkgPath)) throws on a manifest
\* that cannot be read or parsed
ReadPackageJson ==
  /\ At("readPackageJson")
  /\ Issue("readPackageJson")
  /\ IF pkgFile.parseable
       THEN pkg' = pkgFile.json /\ Goto(Succ("readPackageJson"))
       ELSE Abort("readPackageJson") /\ UNCHANGED pkg
  /\ UNCHANGED <<cfg, prov, fs, pkgFile, rejected, vscodeTask>>

\* lines 15-20, 93-126
WritePackageJson ==
  /\ At("writePackageJson")
  /\ Issue("writePackageJson")
  /\ IF newPkgThrows(pkg)
       THEN Abort("newPkg") /\ UNCHANGED pkgFile
       ELSE /\ pkgFile' = [parseable |-> TRUE,
                           json |-> JSONStringify(newPkg(pkg, cfg))]
            /\ Goto(Succ("writePackageJson"))
  /\ UNCHANGED <<cfg, prov, fs, pkg, rejected, vscodeTask>>

\* lines 130-134
GitignoreDiff == FileStep("gitignoreDiff", gitignoreDiff(fs))

\* lines 135-141
GitignoreYarn ==
  \/ /\ cfg.runner = Runner.Yarn
     /\ FileStep("gitignoreYarn", gitignoreYarn(fs))
  \/ /\ cfg.runner # Runner.Yarn
     /\ At("gitignoreYarn")
     /\ Skip(Succ("gitignoreYarn"))

\* lines 146-152
DelScaffold == FileStep("delScaffold", delScaffold(fs))

\* lines 154-156: del(.vscode) is started and not awaited
DelVscode ==
  /\ At("delVscode")
  /\ IF ~cfg.vscode
       THEN /\ Issue("delVscode")
            /\ vscodeTask' = "pending"
            /\ Goto(Succ("delVscode"))
            /\ UNCHANGED <<cfg, prov, fs, pkgFile, pkg, rejected>>
       ELSE Skip(Succ("delVscode"))

\* faulty variant of VscodeSettle: the rejection of the detached del aborts the run
VscodeSettleAborts ==
  /\ vscodeTask = "pending"
  /\ \/ /\ vscodeTask' = "ok" /\ fs' = del(fs, {Vscode})
        /\ UNCHANGED <<pc, status, error>>
     \/ /\ vscodeTask' = "failed" /\ fs' = fs
        /\ IF status = "running" THEN Abort("delVscode")
                                 ELSE UNCHANGED <<pc, status, error>>
  /\ UNCHANGED <<cfg, prov, pkgFile, pkg, ops, rejected>>

\* line 155, the detached del settles, whenever it does: fulfilled (the
\* directory is gone) or rejected (nothing consumes the rejection)
VscodeSettle ==
  /\ vscodeTask = "pending"
  /\ \/ vscodeTask' = "ok" /\ fs' = del(fs, {Vscode})
     \/ vscodeTask' = "failed" /\ fs' = fs
  /\ UNCHANGED <<cfg, prov, pkgFile, pkg, pc, status, error, ops, rejected>>

\* lines 164-167
RenameReadme == FileStep("renameReadme", renameReadme(fs))

\* lines 168-172
ReadmePackageName == FileStep("readmePackageName", readmePackageName(fs, cfg))

\* lines 173-177
ReadmeDescription == FileStep("readmeDescription", readmeDescription(fs, cfg))

\* faulty variant of DomTsconfig: the toggle is not consulted
DomTsconfigUngated == FileStep("domTsconfig", domTsconfig(fs))

\* lines 180-186
DomTsconfig ==
  \/ /\ ~cfg.domDefinitions
     /\ FileStep("domTsconfig", domTsconfig(fs))
  \/ /\ cfg.domDefinitions
     /\ At("domTsconfig")
     /\ Skip(Succ("domDel"))

\* lines 187-191
DomExport == FileStep("domExport", domExport(fs))

\* lines 192-195
DomDel == FileStep("domDel", domDel(fs))

\* lines 199-205
NodeTsconfig ==
  \/ /\ ~cfg.nodeDefinitions
     /\ FileStep("nodeTsconfig", nodeTsconfig(fs))
  \/ /\ cfg.nodeDefinitions
     /\ At("nodeTsconfig")
     /\ Skip(Succ("nodeDel"))

\* lines 206-210
NodeAsyncExport == FileStep("nodeAsyncExport", nodeAsyncExport(fs))

\* lines 211-215
NodeHashExport == FileStep("nodeHashExport", nodeHashExport(fs))

\* lines 216-221
NodeDel == FileStep("nodeDel", nodeDel(fs))

\* faulty variant of Install: the failure of the install collaborator is swallowed
InstallSwallowed ==
  /\ At("install")
  /\ IF cfg.install
       THEN /\ Issue("install")
            /\ Goto(Succ("install"))
            /\ \/ UNCHANGED rejected
               \/ rejected' = rejected \cup {"install"}
            /\ UNCHANGED <<cfg, prov, fs, pkgFile, pkg, vscodeTask>>
       ELSE Skip(Succ("install"))

\* faulty variant of Install: a failed install is tried again
InstallRetry ==
  /\ At("install")
  /\ IF cfg.install
       THEN /\ Issue("install")
            /\ \/ Goto(Succ("install")) /\ UNCHANGED rejected
               \/ Goto("install") /\ rejected' = rejected \cup {"install"}
            /\ UNCHANGED <<cfg, prov, fs, pkgFile, pkg, vscodeTask>>
       ELSE Skip(Succ("install"))

\* faulty variant of Install: the install flag is not consulted
InstallUngated ==
  /\ At("install")
  /\ Issue("install")
  /\ \/ Goto(Succ("install")) /\ UNCHANGED rejected
     \/ Abort("install") /\ rejected' = rejected \cup {"install"}
  /\ UNCHANGED <<cfg, prov, fs, pkgFile, pkg, vscodeTask>>

\* lines 225-227: await tasks.install(runner, projectPath)
Install ==
  /\ At("install")
  /\ IF cfg.install
       THEN /\ Issue("install")
            /\ \/ Goto(Succ("install")) /\ UNCHANGED rejected
               \/ Abort("install") /\ rejected' = rejected \cup {"install"}
            /\ UNCHANGED <<cfg, prov, fs, pkgFile, pkg, vscodeTask>>
       ELSE Skip(Succ("install"))

\* faulty variant of InitialCommit: a failed commit removes the project
InitialCommitCleanup ==
  /\ At("initialCommit")
  /\ IF gitIsConfigured(cfg)
       THEN /\ Issue("initialCommit")
            /\ \/ Goto(Succ("initialCommit")) /\ UNCHANGED <<rejected, fs>>
               \/ /\ Abort("initialCommit")
                  /\ rejected' = rejected \cup {"initialCommit"}
                  /\ fs' = EmptyDir
            /\ UNCHANGED <<cfg, prov, pkgFile, pkg, vscodeTask>>
       ELSE Skip(Succ("initialCommit"))

\* lines 229-237: await tasks.initialCommit(commitHash, projectPath, fullName)
InitialCommit ==
  /\ At("initialCommit")
  /\ IF gitIsConfigured(cfg)
       THEN /\ Issue("initialCommit")
            /\ \/ Goto(Succ("initialCommit")) /\ UNCHANGED rejected
               \/ Abort("initialCommit")
                  /\ rejected' = rejected \cup {"initialCommit"}
            /\ UNCHANGED <<cfg, prov, fs, pkgFile, pkg, vscodeTask>>
       ELSE Skip(Succ("initialCommit"))

\* line 239: console.log(`Created ${projectName}`); the promise resolves
Created ==
  /\ At("created")
  /\ status' = "done"
  /\ Issue("created")
  /\ UNCHANGED <<cfg, prov, fs, pkgFile, pkg, pc, error, rejected, vscodeTask>>

\* The calls each statement issues: <<operation, target, argument>>
ProjectPath == "workingDirectory/projectName"

Calls(stmt, c) ==
  CASE stmt = "cloneRepo" -> {<<"cloneRepo", "workingDirectory", c.projectName>>}
    [] stmt = "delGitHistory" -> {<<"del", GitHistoryDir, "">>}
    [] stmt = "readPackageJson" -> {<<"readFileSync", "package.json", "">>}
    [] stmt = "writePackageJson" -> {<<"writeFileSync", "package.json", "">>}
    [] stmt = "gitignoreDiff" -> {<<"replaceInFile", Gitignore, DiffLine>>}
    [] stmt = "gitignoreYarn" -> {<<"replaceInFile", Gitignore, YarnLock>>}
    [] stmt = "delScaffold" ->
         { <<"del", "CHANGELOG.md", "">>, <<"del", Readme, "">>,
           <<"del", "package-lock.json", "">>, <<"del", "bin", "">>,
           <<"del", "src/cli", "">> }
    [] stmt = "delVscode" -> {<<"del", Vscode, "">>}
    [] stmt = "renameReadme" -> {<<"renameSync", ReadmeStarter, Readme>>}
    [] stmt = "readmePackageName" -> {<<"replaceInFile", Readme, PackageNameToken>>}
    [] stmt = "readmeDescription" -> {<<"replaceInFile", Readme, DescriptionToken>>}
    [] stmt = "domTsconfig" -> {<<"replaceInFile", Tsconfig, LibDom>>}
    [] stmt = "domExport" -> {<<"replaceInFile", IndexTs, HashExport>>}
    [] stmt = "domDel" -> {<<"del", HashTs, "">>, <<"del", HashSpecTs, "">>}
    [] stmt = "nodeTsconfig" -> {<<"replaceInFile", Tsconfig, TypesNode>>}
    [] stmt = "nodeAsyncExport" -> {<<"replaceInFile", IndexTs, AsyncExport>>}
    [] stmt = "nodeHashExport" -> {<<"replaceInFile", IndexTs, HashExport>>}
    [] stmt = "nodeDel" ->
         { <<"del", HashTs, "">>, <<"del", HashSpecTs, "">>,
           <<"del", AsyncTs, "">>, <<"del", AsyncSpecTs, "">> }
    [] stmt = "install" -> {<<"install", c.runner, ProjectPath>>}
    [] stmt = "initialCommit" -> {<<"initialCommit", ProjectPath, c.fullName>>}
    [] OTHER -> {}

MainNext ==
  \/ CloneRepo \/ DelGitHistory \/ ReadPackageJson \/ WritePackageJson
  \/ GitignoreDiff \/ GitignoreYarn \/ DelScaffold \/ DelVscode
  \/ RenameReadme \/ ReadmePackageName \/ ReadmeDescription
  \/ DomTsconfig \/ DomExport \/ DomDel
  \/ NodeTsconfig \/ NodeAsyncExport \/ NodeHashExport \/ NodeDel
  \/ Install \/ InitialCommit \/ Created

Next == MainNext \/ VscodeSettle

Spec == Init /\ [][Next]_vars

----------------------------------------------------------------------------
(* The two pruning procedures on their own: from the tree the pipeline has  *)
(* at line 180, the bodies of the two `if' blocks are applied in any order  *)
(* and up to MaxApply times.                                               *)

MaxApply == 3

\* lines 45-178 on the tree (the awaited operations): the tree when pruning
\* starts
BeforePruning(f, c) ==
  LET gitignoreYarnIf(g) ==
        IF c.runner = Runner.Yarn THEN gitignoreYarn(g) ELSE Resolved(g)
      readmeName(g) == readmePackageName(g, c)
      readmeDesc(g) == readmeDescription(g, c)
  IN Then(Then(Then(Then(Then(Then(Resolved(del(f, {GitHistoryDir})),
       gitignoreDiff), gitignoreYarnIf), delScaffold), renameReadme),
       readmeName), readmeDesc)

\* lines 45-152 on the tree (the awaited operations): the tree when the
\* scaffold files have been deleted
ScaffoldDeleted(f, c) ==
  LET gitignoreYarnIf(g) ==
        IF c.runner = Runner.Yarn THEN gitignoreYarn(g) ELSE Resolved(g)
  IN Then(Then(Then(Resolved(del(f, {GitHistoryDir})),
       gitignoreDiff), gitignoreYarnIf), delScaffold)

\* lines 45-223 on the tree (the awaited operations): the tree when pruning
\* has ended
AfterPruning(f, c) ==
  LET domIf(g) == IF ~c.domDefinitions THEN pruneDomFeature(g) ELSE Resolved(g)
      nodeIf(g) ==
        IF ~c.nodeDefinitions THEN prunePlatformFeature(g) ELSE Resolved(g)
  IN Then(Then(BeforePruning(f, c), domIf), nodeIf)

PruneConfig ==
  [ domDefinitions |-> FALSE, nodeDefinitions |-> FALSE, install |-> FALSE,
    vscode |-> TRUE, fullName |-> PlaceholderName, email |-> PlaceholderEmail,
    runner |-> Runner.Npm, projectName |-> projectName,
    description |-> description ]

InitPrune ==
  /\ cfg = PruneConfig
  /\ prov \in {t \in Templates : t.pkgFile.parseable /\ BeforePruning(t.files, PruneConfig).ok}
  /\ fs = BeforePruning(prov.files, cfg).fs
  /\ pkgFile = [parseable |-> TRUE, json |-> JSONStringify(newPkg(prov.pkgFile.json, cfg))]
  /\ pkg = prov.pkgFile.json
  /\ pc = "domTsconfig"
  /\ status = "running"
  /\ error = "none"
  /\ ops = <<>>
  /\ rejected = {}
  /\ vscodeTask = "none"

\* a whole pruning procedure, named op, with result r
ApplyPrune(op, r) ==
  /\ status = "running"
  /\ Len(ops) < MaxApply
  /\ ops' = Append(ops, op)
  /\ fs' = r.fs
  /\ IF r.ok THEN UNCHANGED <<status, error>>
             ELSE status' = "aborted" /\ error' = op
  /\ UNCHANGED <<cfg, prov, pkgFile, pkg, pc, rejected, vscodeTask>>

\* lines 180-197
PruneDom == ApplyPrune("pruneDomFeature", pruneDomFeature(fs))

\* lines 199-223
PrunePlatform == ApplyPrune("prunePlatformFeature", prunePlatformFeature(fs))

NextPrune == PruneDom \/ PrunePlatform

SpecPrune == InitPrune /\ [][NextPrune]_vars

----------------------------------------------------------------------------
(* The manifest transform on its own: the run up to the written manifest,  *)
(* over source manifests with and without each section.                    *)

\* the sections a source manifest (the package.json the clone brings) may have
SourceManifests ==
  LET base == { EmptyObj,
                [k \in {"name", "version", "description", "keywords"} |->
                   TemplatePkg[k]] }
      devDeps == { EmptyObj } \cup
        { [k \in {"devDependencies"} |->
             JObj([m \in d |-> TemplatePkg.devDependencies.obj[m]])] :
          d \in SUBSET {"ava", "typescript", "meow"} }
      deps == { EmptyObj, [k \in {"dependencies"} |-> TemplatePkg.dependencies] }
      inherited == [ n \in {"build", "version", "reset-hard"} |->
                     CASE n = "build" -> JStr("run-p build:*")
                       [] n = "version" -> JStr("standard-version")
                       [] n = "reset-hard" ->
                            JStr("git clean -dfx && git reset --hard && npm i") ]
      scr == { EmptyObj } \cup
        { [k \in {"scripts"} |-> JObj([n \in ns |-> inherited[n]])] :
          ns \in { {"build"}, {"build", "version"}, {"build", "reset-hard"} } }
      scaffold == { EmptyObj, [k \in {"bin", "NOTE", "NOTE_2"} |-> TemplatePkg[k]] }
      ava == { EmptyObj, [k \in {"ava"} |-> TemplatePkg.ava] }
  IN { Spread(Spread(Spread(Spread(Spread(b, dd), dp), sc), sf), av) :
         b \in base, dd \in devDeps, dp \in deps, sc \in scr,
         sf \in scaffold, av \in ava }

ManifestTemplates ==
  { [ drift |-> {},
      files |-> TemplateFiles({}),
      pkgFile |-> [parseable |-> TRUE, json |-> m] ] : m \in SourceManifests }

ManifestConfigs ==
  [ domDefinitions : {TRUE},
    nodeDefinitions : BOOLEAN,
    install : {FALSE},
    vscode : {TRUE},
    fullName : {PlaceholderName},
    email : {PlaceholderEmail},
    runner : {Runner.Npm, Runner.Yarn},
    projectName : ProjectNames,
    description : {description} ]

InitManifest ==
  /\ cfg \in ManifestConfigs
  /\ prov \in ManifestTemplates
  /\ fs = EmptyDir
  /\ pkgFile = [parseable |-> FALSE, json |-> EmptyObj]
  /\ pkg = EmptyObj
  /\ pc = Stmts[1]
  /\ status = "running"
  /\ error = "none"
  /\ ops = <<>>
  /\ rejected = {}
  /\ vscodeTask = "none"

NextManifest == CloneRepo \/ DelGitHistory \/ ReadPackageJson \/ WritePackageJson

SpecManifest == InitManifest /\ [][NextManifest]_vars

----------------------------------------------------------------------------
(* The pipeline over starter documents: README-starter.md with the          *)
(* placeholders anywhere, any number of times, or missing.                  *)

MaxReadmeLen == 3

RECURSIVE SeqsUpTo(_, _)
SeqsUpTo(S, n) ==
  IF n = 0 THEN {<<>>}
  ELSE LET shorter == SeqsUpTo(S, n - 1)
       IN shorter \cup {Append(t, x) : t \in shorter, x \in S}

StarterDocuments == SeqsUpTo({"# ", PackageNameToken, DescriptionToken}, MaxReadmeLen)

ReadmeTemplates ==
  { Template({"noReadmeStarter"}) } \cup
  { [ drift |-> {},
      files |-> [TemplateFiles({}) EXCEPT ![ReadmeStarter] = r],
      pkgFile |-> [parseable |-> TRUE, json |-> TemplatePkg] ] :
    r \in StarterDocuments }

ReadmeConfigs ==
  [ domDefinitions : BOOLEAN,
    nodeDefinitions : BOOLEAN,
    install : {TRUE},
    vscode : BOOLEAN,
    fullName : {"Ada Lovelace"},
    email : {"ada@example.com"},
    runner : {Runner.Npm, Runner.Yarn},
    projectName : ProjectNames,
    description : Descriptions ]

InitReadme ==
  /\ cfg \in ReadmeConfigs
  /\ prov \in ReadmeTemplates
  /\ fs = EmptyDir
  /\ pkgFile = [parseable |-> FALSE, json |-> EmptyObj]
  /\ pkg = EmptyObj
  /\ pc = Stmts[1]
  /\ status = "running"
  /\ error = "none"
  /\ ops = <<>>
  /\ rejected = {}
  /\ vscodeTask = "none"

SpecReadme == InitReadme /\ [][Next]_vars

----------------------------------------------------------------------------
(* Properties *)

Issued(op) == \E i \in 1..Len(ops) : ops[i] = op

Lines(f, file) == IF file \in DOMAIN f THEN Range(f[file]) ELSE {}

FinalizationFileOps ==
  {"delScaffold", "renameReadme", "readmePackageName", "readmeDescription"}

PruneOps ==
  { "domTsconfig", "domExport", "domDel",
    "nodeTsconfig", "nodeAsyncExport", "nodeHashExport", "nodeDel" }

\* the pruning of every disabled toggle has run to its last step
PruningComplete ==
  /\ cfg.domDefinitions \/ Issued("domDel")
  /\ cfg.nodeDefinitions \/ Issued("nodeDel")

\* C1 as stated: no Finalization file operation (scaffold deletion, README
\* rename, either README placeholder substitution) is performed before the
\* pruning of both toggles is complete.
C1_FinalizationAfterPruning ==
  (\E op \in FinalizationFileOps : Issued(op)) => PruningComplete

\* C1 amended: feature pruning runs after Finalization's file operations
\* (scaffold deletion, README rename, both placeholder substitutions) and the
\* pruning of both toggles is complete before the install collaborator or
\* the initial commit is attempted and before the run reports completion.
C1_PruningAfterReadmeBeforeInstall ==
  /\ (\E op \in PruneOps : Issued(op)) =>
        (\A op \in FinalizationFileOps : Issued(op))
  /\ (Issued("install") \/ Issued("initialCommit") \/ Issued("created")) =>
        PruningComplete

C1_Witness ==
  /\ ~cfg.domDefinitions /\ ~cfg.nodeDefinitions
  /\ Issued("domDel") /\ Issued("nodeDel") /\ Issued("install")

\* C2: the initial commit is attempted only if fullName and email both
\* differ from their placeholders, and a run that completes has attempted it
\* whenever both differ; with only one of them customized no commit is
\* attempted.
C2_CommitIffBothCustomized ==
  LET both == cfg.fullName # PlaceholderName /\ cfg.email # PlaceholderEmail
  IN /\ Issued("initialCommit") => both
     /\ (status = "done" /\ both) => Issued("initialCommit")

C2_Witness ==
  /\ status = "done"
  /\ cfg.fullName # PlaceholderName /\ cfg.email # PlaceholderEmail
  /\ Issued("initialCommit")

\* C3: once the install collaborator has failed, the run is aborted with
\* that error, no initial commit is attempted and completion is never
\* reported.
C3_InstallFailureAborts ==
  "install" \in rejected =>
     /\ status = "aborted"
     /\ error = "install"
     /\ ~Issued("initialCommit")
     /\ ~Issued("created")

C3_Witness ==
  /\ "install" \in rejected
  /\ cfg.fullName # PlaceholderName /\ cfg.email # PlaceholderEmail
  /\ status = "aborted"

\* C4: when the template's package.json cannot be read or parsed, the run
\* aborts at readPackageJson: writePackageJson is never executed, the
\* manifest on disk stays as provisioned, and no later step runs (the tree is
\* the provisioned one without its history directory).
C4_UnparseableManifestAborts ==
  (~prov.pkgFile.parseable /\ Issued("readPackageJson")) =>
     /\ status = "aborted"
     /\ error = "readPackageJson"
     /\ pkgFile = prov.pkgFile
     /\ ops = <<"cloneRepo", "delGitHistory", "readPackageJson">>
     /\ DOMAIN fs = (DOMAIN prov.files) \ {GitHistoryDir}
     /\ \A p \in DOMAIN fs : fs[p] = prov.files[p]

C4_Witness ==
  /\ ~prov.pkgFile.parseable
  /\ Issued("readPackageJson")
  /\ status = "aborted"

\* what belongs to the DOM feature in a tree
LibPart(f) ==
  LET IsLib(x) == x \in {LibDom, LibReduced}
  IN SelectSeq(f[Tsconfig], IsLib)

HashPart(f) ==
  LET IsHashExport(x) == x = HashExport
  IN [ exports |-> SelectSeq(f[IndexTs], IsHashExport),
       files |-> {HashTs, HashSpecTs} \cap DOMAIN f ]

DomFeatureProvisioned ==
  /\ {HashTs, HashSpecTs} \subseteq DOMAIN prov.files
  /\ HashExport \in Lines(prov.files, IndexTs)
  /\ LibDom \in Lines(prov.files, Tsconfig)

\* C5 as stated: with domDefinitions = true, for every nodeDefinitions, a
\* completed run leaves the tsconfig lib fragment, the './lib/hash' export
\* line and hash.ts, hash.spec.ts as provisioned.
C5_DomEnabledLeavesHashUntouched ==
  (status = "done" /\ cfg.domDefinitions) =>
     /\ LibPart(fs) = LibPart(prov.files)
     /\ HashPart(fs) = HashPart(prov.files)

\* C5 amended: with domDefinitions = true a completed run leaves the
\* tsconfig lib fragment as provisioned for every nodeDefinitions, and
\* leaves the './lib/hash' export line and hash.ts, hash.spec.ts as
\* provisioned when nodeDefinitions = true as well.
C5_DomEnabledLeavesLibAndHashUnlessNodeDisabled ==
  (status = "done" /\ cfg.domDefinitions) =>
     /\ LibPart(fs) = LibPart(prov.files)
     /\ cfg.nodeDefinitions => HashPart(fs) = HashPart(prov.files)

C5_Witness ==
  /\ status = "done"
  /\ cfg.domDefinitions /\ cfg.nodeDefinitions
  /\ DomFeatureProvisioned
  /\ HashTs \in DOMAIN fs

\* C6: with domDefinitions = false and the DOM feature provisioned, a
\* completed run leaves hash.ts and hash.spec.ts absent, src/index.ts
\* without the './lib/hash' export line, and the tsconfig fragment
\* "lib": ["es2017", "dom"] replaced, in place, by "lib": ["es2017"].
C6_DomDisabledPrunesFeature ==
  (status = "done" /\ ~cfg.domDefinitions /\ DomFeatureProvisioned) =>
     /\ HashTs \notin DOMAIN fs
     /\ HashSpecTs \notin DOMAIN fs
     /\ HashExport \notin Lines(fs, IndexTs)
     /\ LibDom \notin Lines(fs, Tsconfig)
     /\ Len(fs[Tsconfig]) = Len(prov.files[Tsconfig])
     /\ \A i \in 1..Len(prov.files[Tsconfig]) :
          prov.files[Tsconfig][i] = LibDom => fs[Tsconfig][i] = LibReduced

C6_Witness ==
  /\ status = "done"
  /\ ~cfg.domDefinitions /\ cfg.nodeDefinitions
  /\ DomFeatureProvisioned
  /\ LibReduced \in Lines(fs, Tsconfig)

\* C7: at the end of a completed run, for every combination of the toggles,
\* an export line left in src/index.ts never refers to a module file the run
\* has deleted: './lib/hash' (resp. './lib/async') is exported only if the
\* provisioned hash.ts (resp. async.ts) still exists.
C7_NoDanglingExport ==
  status = "done" =>
     /\ (HashExport \in Lines(fs, IndexTs) /\ HashTs \in DOMAIN prov.files)
          => HashTs \in DOMAIN fs
     /\ (AsyncExport \in Lines(fs, IndexTs) /\ AsyncTs \in DOMAIN prov.files)
          => AsyncTs \in DOMAIN fs

C7_Witness ==
  /\ status = "done"
  /\ cfg.domDefinitions /\ ~cfg.nodeDefinitions
  /\ HashExport \in Lines(prov.files, IndexTs)
  /\ HashTs \in DOMAIN prov.files
  /\ HashTs \notin DOMAIN fs

\* C8: platform pruning never raises an error, whether its targets are
\* present, were removed by DOM pruning or by an earlier platform pruning;
\* applied again after it has been applied, it leaves tsconfig,
\* src/index.ts and the source tree unchanged.
C8_PlatformPruningIdempotent ==
  [][ ops' = Append(ops, "prunePlatformFeature") =>
        /\ status' = "running"
        /\ Issued("prunePlatformFeature") => fs' = fs ]_vars

C8_Witness ==
  /\ ops = <<"pruneDomFeature", "prunePlatformFeature", "prunePlatformFeature">>
  /\ status = "running"
  /\ DomFeatureProvisioned
  /\ AsyncExport \in Lines(prov.files, IndexTs)
  /\ AsyncTs \in DOMAIN prov.files

\* C9: with both features disabled, DOM pruning followed by platform
\* pruning and platform pruning followed by DOM pruning end without error
\* in the same tsconfig, entry module and source tree.
C9_PruningOrderIndependent ==
  (Len(ops) = 2 /\ Range(ops) = {"pruneDomFeature", "prunePlatformFeature"}) =>
     /\ status = "running"
     /\ fs = prunePlatformFeature(
               pruneDomFeature(BeforePruning(prov.files, cfg).fs).fs).fs

C9_Witness ==
  /\ ops = <<"prunePlatformFeature", "pruneDomFeature">>
  /\ status = "running"
  /\ DomFeatureProvisioned
  /\ AsyncTs \in DOMAIN prov.files
  /\ HashTs \notin DOMAIN fs /\ AsyncTs \notin DOMAIN fs

\* the tree without the editor-settings directory
WithoutVscode(f) == [p \in (DOMAIN f) \ {Vscode} |-> f[p]]

----------------------------------------------------------------------------
(* Operations issued, aborts, install *)

\* how many times the call m has been issued
OpCount(m) == Cardinality({i \in 1..Len(ops) : m \in Calls(ops[i], cfg)})

AllCalls == UNION {Calls(Stmts[i], cfg) : i \in 1..Len(Stmts)}

\* the calls the DOM block and the platform block have in common
SharedHashCalls ==
  { <<"replaceInFile", IndexTs, HashExport>>,
    <<"del", HashTs, "">>, <<"del", HashSpecTs, "">> }

\* C11 as stated: no collaborator call and no file mutation (a given
\* deletion or substring removal on a given target) is issued more than
\* once in a run, for every configuration.
C11_EveryOperationOnce == \A m \in AllCalls : OpCount(m) <= 1

\* C11 amended: no statement of the pipeline runs twice (no retry); every
\* collaborator call and every file mutation is issued at most once, and
\* once in a completed run that reaches it unconditionally, except the
\* removal of the './lib/hash' export line and the deletions of hash.ts and
\* hash.spec.ts, which are issued twice (by DOM pruning and again by platform
\* pruning) when both features are disabled, and only then.
C11_NoRetrySharedHashTwice ==
  /\ \A i, j \in 1..Len(ops) : i # j => ops[i] # ops[j]
  /\ \A m \in AllCalls \ SharedHashCalls : OpCount(m) <= 1
  /\ \A m \in SharedHashCalls :
       /\ OpCount(m) <= 2
       /\ OpCount(m) = 2 => (~cfg.domDefinitions /\ ~cfg.nodeDefinitions)
       /\ (status = "done" /\ ~cfg.domDefinitions /\ ~cfg.nodeDefinitions)
            => OpCount(m) = 2
  /\ status = "done" =>
       \A st \in {"cloneRepo", "delGitHistory", "readPackageJson",
                  "writePackageJson", "gitignoreDiff", "delScaffold",
                  "renameReadme", "readmePackageName", "readmeDescription"} :
         \A m \in Calls(st, cfg) : OpCount(m) = 1

C11_Witness ==
  /\ status = "done"
  /\ ~cfg.domDefinitions /\ ~cfg.nodeDefinitions
  /\ cfg.install /\ Issued("initialCommit")
  /\ OpCount(<<"replaceInFile", IndexTs, HashExport>>) = 2

\* the manifest writePackageJson writes in this run
WrittenPkgFile ==
  [parseable |-> TRUE, json |-> JSONStringify(newPkg(prov.pkgFile.json, cfg))]

\* C12: there is no rollback.  When the run aborts, the statement that
\* failed is the last one executed; the manifest written and every file
\* mutation completed before it are still in effect (missing
\* README-starter.md: the manifest is written, .gitignore rewritten and the
\* scaffold files deleted; install or commit failure: pruning is applied as
\* well); and once aborted nothing changes any more, but for the detached
\* .vscode deletion.
C12_NoRollback ==
  /\ [](status = "aborted" =>
          ops[Len(ops)] = (IF error = "newPkg" THEN "writePackageJson" ELSE error))
  /\ []((status = "aborted" /\ error = "renameReadme") =>
          /\ pkgFile = WrittenPkgFile
          /\ WithoutVscode(fs) =
               WithoutVscode(ScaffoldDeleted(prov.files, cfg).fs))
  /\ []((status = "aborted" /\ error \in {"install", "initialCommit"}) =>
          /\ pkgFile = WrittenPkgFile
          /\ WithoutVscode(fs) = WithoutVscode(AfterPruning(prov.files, cfg).fs))
  /\ [][ status = "aborted" =>
           /\ UNCHANGED <<pc, status, error, ops, rejected, pkgFile, pkg>>
           /\ WithoutVscode(fs') = WithoutVscode(fs) ]_vars

C12_Witness ==
  /\ status = "aborted"
  /\ error = "initialCommit"
  /\ ~cfg.domDefinitions
  /\ HashTs \in DOMAIN prov.files
  /\ HashTs \notin DOMAIN fs
  /\ pkgFile = WrittenPkgFile

\* C13: tasks.install is invoked only when install = true, with the
\* configured runner and the project path; a run that has gone past the
\* install step has invoked it exactly when install = true.
C13_InstallOnlyWhenRequested ==
  /\ Issued("install") =>
       /\ cfg.install
       /\ Calls("install", cfg) = {<<"install", cfg.runner, ProjectPath>>}
  /\ ( cfg.install
       /\ (status = "done" \/ pc \in {"initialCommit", "created"}) )
       => Issued("install")

C13_Witness ==
  /\ status = "done"
  /\ cfg.install
  /\ cfg.runner = Runner.Yarn
  /\ Issued("install")

----------------------------------------------------------------------------
(* The derived manifest *)

\* the manifest has been derived and written
ManifestDerived == Issued("writePackageJson") /\ status = "running"

SourceDevDependencies == SpreadOf(Get(pkg, "devDependencies"))
DerivedDevDependencies == Get(pkgFile.json, "devDependencies")

\* what the allow-list lets through
AllowListed(src, out) ==
  /\ out.kind = "object"
  /\ DOMAIN out.obj = Range(keptDevDeps) \cap DOMAIN src
  /\ \A k \in DOMAIN out.obj : out.obj[k] = src[k] /\ out.obj[k].kind # "undefined"

\* C14 as stated: for every source manifest, once the manifest step has run
\* the derived devDependencies hold each allow-listed name present in the
\* source with its value unchanged, no name outside the allow-list, and no
\* key (and no undefined marker) for an allow-listed name absent from the
\* source.
C14_DevDependenciesFiltered ==
  Issued("writePackageJson") =>
    /\ status = "running"
    /\ AllowListed(SourceDevDependencies, DerivedDevDependencies)

\* C14, for the source manifests that have a devDependencies section
C14_DevDependenciesFilteredWhenPresent ==
  ManifestDerived =>
    AllowListed(SourceDevDependencies, DerivedDevDependencies)

\* a source manifest without devDependencies: the derivation throws and the
\* manifest of the clone stays on disk
C14_Witness ==
  /\ Issued("writePackageJson")
  /\ "devDependencies" \notin DOMAIN pkg
  /\ status = "aborted" /\ error = "newPkg"
  /\ pkgFile = prov.pkgFile

SourceScripts == SpreadOf(Get(pkg, "scripts"))
DerivedScripts == Get(pkgFile.json, "scripts")

YarnResetHard == "git clean -dfx && git reset --hard && yarn"

\* C15 as stated: every inherited script is preserved (version apart, which
\* is overridden), and a reset-hard script is added only under Yarn.
C15_EveryInheritedScriptPreserved ==
  ManifestDerived =>
    /\ DerivedScripts.kind = "object"
    /\ \A n \in DOMAIN SourceScripts \ {"version"} :
         /\ n \in DOMAIN DerivedScripts.obj
         /\ DerivedScripts.obj[n] = SourceScripts[n]
    /\ Get(DerivedScripts.obj, "version") = JStr(VersionScript(cfg.projectName))

\* C15 amended: the derived scripts are the inherited scripts, but 'version'
\* is the standard-version command tagged with projectName, whatever was
\* inherited, and under Yarn 'reset-hard' is the fixed Yarn command,
\* whatever was inherited; under npm no reset-hard is added and an inherited
\* one is kept as it is.  No other script is added or changed.
C15_ScriptsInheritedButVersionAndYarnResetHard ==
  ManifestDerived =>
    LET set == {"version"} \cup
                 (IF cfg.runner = Runner.Yarn THEN {"reset-hard"} ELSE {})
    IN /\ DerivedScripts.kind = "object"
       /\ DOMAIN DerivedScripts.obj = DOMAIN SourceScripts \cup set
       /\ \A n \in DOMAIN SourceScripts \ set :
            DerivedScripts.obj[n] = SourceScripts[n]
       /\ DerivedScripts.obj["version"] = JStr(VersionScript(cfg.projectName))
       /\ cfg.runner = Runner.Yarn =>
            DerivedScripts.obj["reset-hard"] = JStr(YarnResetHard)
       /\ \A other \in ProjectNames \ {cfg.projectName} :
            DerivedScripts.obj["version"] # JStr(VersionScript(other))

C15_Witness ==
  /\ ManifestDerived
  /\ cfg.runner = Runner.Yarn
  /\ "reset-hard" \in DOMAIN SourceScripts
  /\ DerivedScripts.obj["reset-hard"] = JStr(YarnResetHard)
  /\ DerivedScripts.obj["reset-hard"] # SourceScripts["reset-hard"]
  /\ DerivedScripts.obj["build"] = SourceScripts["build"]

\* C16: whatever the source manifest and the configuration, the derived
\* manifest has version '1.0.0', keywords [] and none of the keys bin, NOTE
\* and NOTE_2.
C16_VersionKeywordsScaffoldKeys ==
  ManifestDerived =>
    /\ Get(pkgFile.json, "version") = JStr("1.0.0")
    /\ Get(pkgFile.json, "keywords") = JArr(<<>>)
    /\ DOMAIN pkgFile.json \cap {"bin", "NOTE", "NOTE_2"} = {}

C16_Witness ==
  /\ ManifestDerived
  /\ {"bin", "NOTE", "NOTE_2"} \subseteq DOMAIN pkg
  /\ Get(pkg, "version") = JStr("3.1.0")
  /\ Get(pkg, "keywords").arr # <<>>
  /\ Get(pkgFile.json, "version") = JStr("1.0.0")

\* C17: with the runtime toggle (nodeDefinitions) false, the dependencies of
\* the derived manifest are exactly empty, whatever the source's hold.
C17_NoRuntimeDependencies ==
  (ManifestDerived /\ ~cfg.nodeDefinitions) =>
    Get(pkgFile.json, "dependencies") = JObj(EmptyObj)

C17_Witness ==
  /\ ManifestDerived
  /\ ~cfg.nodeDefinitions
  /\ "chalk" \in DOMAIN SpreadOf(Get(pkg, "dependencies"))
  /\ Get(pkgFile.json, "dependencies") = JObj(EmptyObj)

----------------------------------------------------------------------------
(* Order of the history deletion and of the pruning steps *)

\* C18: the history directory is deleted immediately after the clone: the
\* deletion is the second operation of every run, it leaves no history
\* directory, and as long as the cloned history directory exists the
\* manifest is not read and no file of the project is touched but by that
\* deletion.
C18_HistoryDeletedFirst ==
  /\ [](Len(ops) >= 1 => ops[1] = "cloneRepo")
  /\ [](Len(ops) >= 2 =>
          /\ ops[2] = "delGitHistory"
          /\ GitHistoryDir \notin DOMAIN fs)
  /\ [][ (GitHistoryDir \in DOMAIN fs) =>
           /\ UNCHANGED <<pkg, pkgFile>>
           /\ fs' \in {fs, del(fs, {GitHistoryDir})}
           /\ ops' \in {ops, Append(ops, "delGitHistory")} ]_vars

C18_Witness ==
  /\ Issued("readPackageJson")
  /\ pkg # EmptyObj
  /\ GitHistoryDir \in DOMAIN prov.files
  /\ GitHistoryDir \notin DOMAIN fs
  /\ ops[2] = "delGitHistory"

OpIndex(op) == CHOOSE i \in 1..Len(ops) : ops[i] = op

\* b has been issued only after a
IssuedAfter(b, a) == Issued(b) => (Issued(a) /\ OpIndex(a) < OpIndex(b))

\* C20: each pruning procedure rewrites the compiler configuration, then
\* removes the export line(s), then deletes the module files; so in every
\* reachable state a feature module file of the template that is no longer
\* in the tree has no export line left in src/index.ts.
C20_ExportRemovedBeforeModuleDeleted ==
  /\ IssuedAfter("domExport", "domTsconfig")
  /\ IssuedAfter("domDel", "domExport")
  /\ IssuedAfter("nodeAsyncExport", "nodeTsconfig")
  /\ IssuedAfter("nodeHashExport", "nodeAsyncExport")
  /\ IssuedAfter("nodeDel", "nodeHashExport")
  /\ \A m \in { <<HashTs, HashExport>>, <<AsyncTs, AsyncExport>> } :
       (m[1] \in DOMAIN prov.files /\ m[1] \notin DOMAIN fs /\ fs # EmptyDir)
         => m[2] \notin Lines(fs, IndexTs)

C20_Witness ==
  /\ status = "running"
  /\ pc = "nodeTsconfig"
  /\ Issued("domDel")
  /\ HashTs \in DOMAIN prov.files
  /\ HashExport \in Lines(prov.files, IndexTs)
  /\ HashTs \notin DOMAIN fs
  /\ HashExport \notin Lines(fs, IndexTs)
  /\ AsyncExport \in Lines(fs, IndexTs)

----------------------------------------------------------------------------
(* README *)

\* s with the first occurrence of the fragment `from' replaced by the text
\* `by', taken as it is
LiteralFirst(s, from, by) ==
  IF from \notin Range(s) THEN s
  ELSE LET i == CHOOSE j \in 1..Len(s) :
                  s[j] = from /\ \A k \in 1..(j - 1) : s[k] # from
       IN SubSeq(s, 1, i - 1) \o by \o SubSeq(s, i + 1, Len(s))

\* the starter document with the first '[package-name]' replaced by
\* projectName and then the first '[description]' replaced by description
ReadmeExpected ==
  LiteralFirst(
    LiteralFirst(prov.files[ReadmeStarter], PackageNameToken, <<cfg.projectName>>),
    DescriptionToken, DescriptionText(cfg.description))

ReadmeOrder ==
  /\ IssuedAfter("renameReadme", "delScaffold")
  /\ (Issued("delScaffold") /\ ~Issued("renameReadme")) => Readme \notin DOMAIN fs
  /\ IssuedAfter("readmePackageName", "renameReadme")
  /\ IssuedAfter("readmeDescription", "readmePackageName")

\* C19 as stated: README.md of the template is deleted before
\* README-starter.md is renamed; after a completed run README-starter.md is
\* gone and README.md is the starter document with the first
\* '[package-name]' replaced by projectName and then the first
\* '[description]' replaced by description, later occurrences unchanged.
C19_ReadmeFirstOccurrencesReplaced ==
  /\ ReadmeOrder
  /\ status = "done" =>
       /\ ReadmeStarter \notin DOMAIN fs
       /\ Readme \in DOMAIN fs
       /\ fs[Readme] = ReadmeExpected

\* the descriptions without a replacement pattern of String.prototype.replace
PlainDescriptions ==
  {d \in Descriptions : Range(DescriptionText(d)) \cap {"$$", "$&", "$`", "$'"} = {}}

\* C19, for the descriptions without a replacement pattern
C19_ReadmeFirstOccurrencesReplacedWhenPlain ==
  /\ ReadmeOrder
  /\ (status = "done" /\ cfg.description \in PlainDescriptions) =>
       /\ ReadmeStarter \notin DOMAIN fs
       /\ Readme \in DOMAIN fs
       /\ fs[Readme] = ReadmeExpected

\* a description with $$ reaches README.md with a single $
C19_Witness ==
  /\ status = "done"
  /\ cfg.description = "Earn $$"
  /\ prov.files[ReadmeStarter] = <<"# ", PackageNameToken, DescriptionToken>>
  /\ fs[Readme] = <<"# ", cfg.projectName, "Earn ", "$">>
  /\ fs[Readme] # ReadmeExpected

============================================================================
